---- MODULE Spec2Model ----
\* Model of the Babel plugin expo-client-references
\* (packages/babel-preset-expo/src/client-module-proxy-plugin.ts and its
\* compiled build artifact).  One compile unit (a Program node, its file
\* options and metadata) is passed through the Program visitor, and the
\* emitted module is then executed by a CommonJS runtime.
EXTENDS Naturals, Sequences, FiniteSets, TLC

\* ---------------------------------------------------------------- bounds

MaxStmts == 2
MaxDirectives == 2
MaxPasses == 2

\* ------------------------------------------------------ babel node builders
\* JS strings that end up in generated literals are sequences of text chunks
\* (so that the file URL can be computed from the path); identifier names are
\* plain strings.

NullNode == [type |-> "Null"]

t_identifier(name) == [type |-> "Identifier", name |-> name]

t_stringLiteral(value) == [type |-> "StringLiteral", value |-> value]

t_nullLiteral == [type |-> "NullLiteral"]

t_memberExpression(object, property, computed) ==
    [type |-> "MemberExpression", object |-> object, property |-> property,
     computed |-> computed]

t_callExpression(callee, arguments) ==
    [type |-> "CallExpression", callee |-> callee, arguments |-> arguments]

t_assignmentExpression(operator, left, right) ==
    [type |-> "AssignmentExpression", operator |-> operator, left |-> left,
     right |-> right]

t_expressionStatement(expression) ==
    [type |-> "ExpressionStatement", expression |-> expression]

t_unaryExpression(operator, argument) ==
    [type |-> "UnaryExpression", operator |-> operator, argument |-> argument]

t_binaryExpression(operator, left, right) ==
    [type |-> "BinaryExpression", operator |-> operator, left |-> left,
     right |-> right]

t_ifStatement(test, consequent, alternate) ==
    [type |-> "IfStatement", test |-> test, consequent |-> consequent,
     alternate |-> alternate]

t_blockStatement(body) == [type |-> "BlockStatement", body |-> body]

t_variableDeclarator(id) == [type |-> "VariableDeclarator", id |-> id]

t_variableDeclaration(kind, declarations) ==
    [type |-> "VariableDeclaration", kind |-> kind,
     declarations |-> declarations]

t_forInStatement(left, right, body) ==
    [type |-> "ForInStatement", left |-> left, right |-> right, body |-> body]

t_arrowFunctionExpression(params, body) ==
    [type |-> "ArrowFunctionExpression", params |-> params, body |-> body]

t_isVariableDeclaration(node) == node.type = "VariableDeclaration"

\* ------------------------------------------------------------ input modules
\* The statements a parsed source module may hold.

ObjectPattern(names) == [type |-> "ObjectPattern", properties |-> names]

FunctionDeclaration(name) ==
    [type |-> "FunctionDeclaration", id |-> t_identifier(name)]

ExportSpecifier(local, exported) ==
    [type |-> "ExportSpecifier", local |-> t_identifier(local),
     exported |-> t_identifier(exported)]

ExportNamedDeclaration(declaration, specifiers) ==
    [type |-> "ExportNamedDeclaration", declaration |-> declaration,
     specifiers |-> specifiers]

ExportDefaultDeclaration(declaration) ==
    [type |-> "ExportDefaultDeclaration", declaration |-> declaration]

\* const local;            (a statement that is not an export)
PlainStatement ==
    t_variableDeclaration("const", <<t_variableDeclarator(t_identifier("local"))>>)

\* export const foo = ..., bar = ...;
ExportVars ==
    ExportNamedDeclaration(
        t_variableDeclaration("const",
            <<t_variableDeclarator(t_identifier("foo")),
              t_variableDeclarator(t_identifier("bar"))>>),
        <<>>)

\* export const { a, b } = obj;
ExportDestructured ==
    ExportNamedDeclaration(
        t_variableDeclaration("const",
            <<t_variableDeclarator(ObjectPattern(<<"a", "b">>))>>),
        <<>>)

\* export function doThing() {}
ExportFunction ==
    ExportNamedDeclaration(FunctionDeclaration("doThing"), <<>>)

\* export { x as baz, y };
ExportSpecifiers ==
    ExportNamedDeclaration(NullNode,
        <<ExportSpecifier("x", "baz"), ExportSpecifier("y", "y")>>)

\* export default function () {}
ExportDefault ==
    ExportDefaultDeclaration([type |-> "FunctionDeclaration", id |-> NullNode])

SourceStatements ==
    {PlainStatement, ExportVars, ExportDestructured, ExportFunction,
     ExportSpecifiers, ExportDefault}

DirectiveValues == {"use client", "use server", "use strict"}

RECURSIVE SeqsUpTo(_, _)
SeqsUpTo(S, n) ==
    IF n = 0 THEN {<<>>}
    ELSE LET shorter == SeqsUpTo(S, n - 1)
         IN shorter \cup {Append(s, x) : s \in shorter, x \in S}

NoRepeat(s) == \A i, j \in 1..Len(s) : i # j => s[i] # s[j]

\* Directive lists of a parsed module (a directive is not repeated).
DirectiveLists == {d \in SeqsUpTo(DirectiveValues, MaxDirectives) : NoRepeat(d)}

Bodies == SeqsUpTo(SourceStatements, MaxStmts)

\* state.file.opts.filename: an absolute path, character by character; the
\* empty sequence stands for a filename that is not set (undefined or "").
Filenames == {<<>>, <<"/", "a", "p", "p", "/", "m", " ", "#", ".", "j", "s">>}

\* ------------------------------------------------------------------ state

VARIABLES
    impl,           \* which file is loaded: the TypeScript source or the build
    isServer,       \* api.caller(getIsReactServer)
    filename,       \* state.file.opts.filename
    directives,     \* path.node.directives (their values)
    body,           \* path.node.body
    metadata,       \* state.file.metadata
    error,          \* what the last run of the visitor threw, if anything
    passes,         \* how many times the visitor has run on this unit
    executed,       \* whether the emitted module has been run
    moduleExports,  \* module.exports of the running module
    registrations   \* the calls registerServerReference has received

vars ==
    <<impl, isServer, filename, directives, body, metadata, error, passes,
      executed, moduleExports, registrations>>

\* ------------------------------------------------------------- the visitor

reactServerAdapter == <<"react-server-dom-webpack/server">>

NoError == "none"

\* buildCodeFrameError: both directives in the same file
ConflictError == "both use client and use server directives in the same file"

FilenameError == "Expected a filename to be set in the state"

\* The value of a property the node may not have.
Undefined == "<undefined>"

NameOf(node) == IF "name" \in DOMAIN node THEN node.name ELSE Undefined

IsUseClient(dirs) == \E i \in 1..Len(dirs) : dirs[i] = "use client"

IsUseServer(dirs) == \E i \in 1..Len(dirs) : dirs[i] = "use server"

\* !filePath
NoFilename(filePath) == filePath = <<>>

\* url.pathToFileURL(filePath).href for an absolute POSIX path: the scheme,
\* then the path with the characters a URL path cannot hold percent-encoded.
EncodeChar(c) ==
    CASE c = "%" -> "%25"
      [] c = " " -> "%20"
      [] c = "#" -> "%23"
      [] c = "?" -> "%3F"
      [] OTHER -> c

pathToFileURL(filePath) ==
    <<"file://">> \o [i \in 1..Len(filePath) |-> EncodeChar(filePath[i])]

\* Mutant: the filename is checked before the directives are compared.
EarlyExit_FilenameFirst(dirs, filePath) ==
    IF NoFilename(filePath) THEN "nofilename"
    ELSE IF IsUseClient(dirs) /\ IsUseServer(dirs) THEN "conflict"
    ELSE IF ~IsUseClient(dirs) /\ ~IsUseServer(dirs) THEN "return"
    ELSE "continue"

\* Mutant: the plain return is taken only by a module without any directive.
EarlyExit_ReturnOnlyWithoutDirectives(dirs, filePath) ==
    IF IsUseClient(dirs) /\ IsUseServer(dirs) THEN "conflict"
    ELSE IF NoFilename(filePath) THEN "nofilename"
    ELSE IF dirs = <<>> THEN "return"
    ELSE "continue"

\* The exits of the visitor before any collection: the conflict error, the
\* missing-filename error, the plain return, or none of them.
EarlyExit(dirs, filePath) ==
    IF IsUseClient(dirs) /\ IsUseServer(dirs) THEN "conflict"
    ELSE IF NoFilename(filePath) THEN "nofilename"
    ELSE IF ~IsUseClient(dirs) /\ ~IsUseServer(dirs) THEN "return"
    ELSE "continue"

\* declarations.map((decl) => decl.id.name)
DeclaratorNames(decls) == [i \in 1..Len(decls) |-> NameOf(decls[i].id)]

\* specifiers.map((spec) => spec.exported.name)
SpecifierNames(specs) == [i \in 1..Len(specs) |-> NameOf(specs[i].exported)]

\* What the two export visitors push for one statement.
NodeExports(node) ==
    IF node.type = "ExportNamedDeclaration" THEN
        IF node.declaration.type # "Null" THEN
            IF t_isVariableDeclaration(node.declaration)
            THEN DeclaratorNames(node.declaration.declarations)
            ELSE <<NameOf(node.declaration.id)>>
        ELSE SpecifierNames(node.specifiers)
    ELSE IF node.type = "ExportDefaultDeclaration" THEN
        IF node.declaration.type # "Null" THEN <<"default">> ELSE <<>>
    ELSE <<>>

\* path.traverse over the statements, in source order.
RECURSIVE CollectExports(_)
CollectExports(stmts) ==
    IF stmts = <<>> THEN <<>>
    ELSE NodeExports(Head(stmts)) \o CollectExports(Tail(stmts))

ClientReferences(outputKey, exports) ==
    [entryPoint |-> outputKey, exports |-> exports]

\* state.file.metadata[clientReferences] = record
AttachMetadata(meta, record) == ("clientReferences" :> record) @@ meta

ModuleExportsNode ==
    t_memberExpression(t_identifier("module"), t_identifier("exports"), FALSE)

\* Mutant: the proxy is given the key followed by a fragment separator.
ClientProxyStatement_WithFragment(outputKey) ==
    t_expressionStatement(
        t_assignmentExpression("=",
            ModuleExportsNode,
            t_callExpression(
                t_memberExpression(
                    t_callExpression(t_identifier("require"),
                                     <<t_stringLiteral(reactServerAdapter)>>),
                    t_identifier("createClientModuleProxy"),
                    FALSE),
                <<t_stringLiteral(outputKey \o <<"#">>)>>)))

\* module.exports = require(adapter).createClientModuleProxy(outputKey)
ClientProxyStatement(outputKey) ==
    t_expressionStatement(
        t_assignmentExpression("=",
            ModuleExportsNode,
            t_callExpression(
                t_memberExpression(
                    t_callExpression(t_identifier("require"),
                                     <<t_stringLiteral(reactServerAdapter)>>),
                    t_identifier("createClientModuleProxy"),
                    FALSE),
                <<t_stringLiteral(outputKey)>>)))

mmexp ==
    t_memberExpression(
        t_callExpression(t_identifier("require"),
                         <<t_stringLiteral(reactServerAdapter)>>),
        t_identifier("registerServerReference"),
        FALSE)

ModuleExportsKeyNode ==
    t_memberExpression(ModuleExportsNode, t_identifier("key"), TRUE)

\* Mutant: the loop registers every key, without the typeof test.
loopBody_NoTypeofTest(outputKey) ==
    t_blockStatement(<<
        t_expressionStatement(
            t_callExpression(mmexp,
                <<ModuleExportsKeyNode,
                  t_stringLiteral(outputKey),
                  t_identifier("key")>>))
    >>)

loopBody(outputKey) ==
    t_blockStatement(<<
        t_ifStatement(
            t_binaryExpression("===",
                t_unaryExpression("typeof", ModuleExportsKeyNode),
                t_stringLiteral(<<"function">>)),
            t_expressionStatement(
                t_callExpression(mmexp,
                    <<ModuleExportsKeyNode,
                      t_stringLiteral(outputKey),
                      t_identifier("key")>>)),
            NullNode)
    >>)

forInStatement(outputKey) ==
    t_forInStatement(
        t_variableDeclaration("const", <<t_variableDeclarator(t_identifier("key"))>>),
        ModuleExportsNode,
        loopBody(outputKey))

\* ;(() => { if (typeof module.exports === function) ... else for-in })()
ServerRegisterStatement(outputKey) ==
    t_expressionStatement(
        t_callExpression(
            t_arrowFunctionExpression(<<>>,
                t_blockStatement(<<
                    t_ifStatement(
                        t_binaryExpression("===",
                            t_unaryExpression("typeof", ModuleExportsNode),
                            t_stringLiteral(<<"function">>)),
                        t_blockStatement(<<
                            t_expressionStatement(
                                t_callExpression(mmexp,
                                    <<ModuleExportsNode,
                                      t_stringLiteral(outputKey),
                                      t_nullLiteral>>))
                        >>),
                        t_blockStatement(<<forInStatement(outputKey)>>))
                >>)),
            <<>>))

\* Mutant: the node is put in front of the container (unshiftContainer).
pushContainer_Unshift(stmts, node) == <<node>> \o stmts

\* path.pushContainer(body, node)
pushContainer(stmts, node) == Append(stmts, node)

\* Mutant: the statements and the directives are cleared on both branches.
RewriteBody_ClearsBoth(dirs, stmts, outputKey) ==
    IF IsUseClient(dirs)
    THEN [body |-> pushContainer(<<>>, ClientProxyStatement(outputKey)),
          directives |-> <<>>]
    ELSE [body |-> pushContainer(<<>>, ServerRegisterStatement(outputKey)),
          directives |-> <<>>]

\* The two rewrite branches: what the statements and the directives become.
RewriteBody(dirs, stmts, outputKey) ==
    IF IsUseClient(dirs)
    THEN [body |-> pushContainer(<<>>, ClientProxyStatement(outputKey)),
          directives |-> <<>>]
    ELSE [body |-> pushContainer(stmts, ServerRegisterStatement(outputKey)),
          directives |-> dirs]

\* Mutant: the rewrite does not look at the build mode.
SourceRewrites_Always(server) == TRUE

\* The TypeScript source: the record is attached for either directive, the
\* rewrite only when bundling for the server.
SourceRewrites(server) == server

\* The whole Program visitor of the TypeScript source, as the result it
\* leaves: the error thrown (if any) and the new contents of the unit.
ProgramResult(server, dirs, stmts, filePath, meta) ==
    LET exit == EarlyExit(dirs, filePath)
        outputKey == pathToFileURL(filePath)
        rewritten == RewriteBody(dirs, stmts, outputKey)
        attached ==
            AttachMetadata(meta, ClientReferences(outputKey, CollectExports(stmts)))
    IN  IF exit = "conflict" THEN
            [error |-> ConflictError, body |-> stmts, directives |-> dirs,
             metadata |-> meta]
        ELSE IF exit = "nofilename" THEN
            [error |-> FilenameError, body |-> stmts, directives |-> dirs,
             metadata |-> meta]
        ELSE IF exit = "return" THEN
            [error |-> NoError, body |-> stmts, directives |-> dirs,
             metadata |-> meta]
        ELSE IF ~SourceRewrites(server) THEN
            [error |-> NoError, body |-> stmts, directives |-> dirs,
             metadata |-> attached]
        ELSE
            [error |-> NoError, body |-> rewritten.body,
             directives |-> rewritten.directives, metadata |-> attached]

\* The build artifact attaches the record only inside if (isUseClient).
BuildAttaches(dirs) == IsUseClient(dirs)

\* The Program visitor of the build artifact: it reads no build mode.
ProgramBuildResult(dirs, stmts, filePath, meta) ==
    LET exit == EarlyExit(dirs, filePath)
        outputKey == pathToFileURL(filePath)
        rewritten == RewriteBody(dirs, stmts, outputKey)
        attached ==
            AttachMetadata(meta, ClientReferences(outputKey, CollectExports(stmts)))
    IN  IF exit = "conflict" THEN
            [error |-> ConflictError, body |-> stmts, directives |-> dirs,
             metadata |-> meta]
        ELSE IF exit = "nofilename" THEN
            [error |-> FilenameError, body |-> stmts, directives |-> dirs,
             metadata |-> meta]
        ELSE IF exit = "return" THEN
            [error |-> NoError, body |-> stmts, directives |-> dirs,
             metadata |-> meta]
        ELSE
            [error |-> NoError, body |-> rewritten.body,
             directives |-> rewritten.directives,
             metadata |-> IF BuildAttaches(dirs) THEN attached ELSE meta]

\* ------------------------------------------------- running the emitted code
\* The CommonJS runtime the emitted statements run in.  A value has a type
\* tag, an identity (the text of a string, the name of a function) and, for an
\* object, its enumerable properties in enumeration order.

FunV(name) == [t |-> "function", id |-> <<name>>, props |-> <<>>]

StrV(text) == [t |-> "string", id |-> text, props |-> <<>>]

BoolV(b) ==
    [t |-> "boolean", id |-> IF b THEN <<"true">> ELSE <<"false">>, props |-> <<>>]

NullV == [t |-> "null", id |-> <<>>, props |-> <<>>]

UndefV == [t |-> "undefined", id |-> <<>>, props |-> <<>>]

ObjV(props) == [t |-> "object", id |-> <<>>, props |-> props]

ModuleV == [t |-> "module", id |-> <<>>, props |-> <<>>]

RequireV == [t |-> "require", id |-> <<>>, props |-> <<>>]

AdapterV(name) == [t |-> "adapter", id |-> name, props |-> <<>>]

BuiltinV(name) == [t |-> "builtin", id |-> <<name>>, props |-> <<>>]

\* What createClientModuleProxy(id) returns.
ProxyV(id) == [t |-> "proxy", id |-> id, props |-> <<>>]

Prop(key, val) == [key |-> <<key>>, val |-> val]

\* typeof
TypeOf(v) ==
    CASE v.t \in {"function", "builtin", "require"} -> <<"function">>
      [] v.t = "string" -> <<"string">>
      [] v.t = "boolean" -> <<"boolean">>
      [] v.t = "undefined" -> <<"undefined">>
      [] OTHER -> <<"object">>

\* object[key]
GetProp(obj, key, rt) ==
    IF obj.t = "module"
    THEN IF key = <<"exports">> THEN rt.exports ELSE UndefV
    ELSE IF obj.t = "adapter"
    THEN IF obj.id = reactServerAdapter
              /\ key \in {<<"registerServerReference">>, <<"createClientModuleProxy">>}
         THEN BuiltinV(key[1])
         ELSE UndefV
    ELSE IF obj.t = "object"
    THEN LET hits == SelectSeq(obj.props, LAMBDA p : p.key = key)
         IN IF hits = <<>> THEN UndefV ELSE hits[1].val
    ELSE UndefV

RECURSIVE Eval(_, _)
Eval(e, rt) ==
    CASE e.type = "StringLiteral" -> StrV(e.value)
      [] e.type = "NullLiteral" -> NullV
      [] e.type = "Identifier" ->
            (CASE e.name = "module" -> ModuleV
               [] e.name = "require" -> RequireV
               [] e.name = "key" -> rt.key
               [] OTHER -> UndefV)
      [] e.type = "MemberExpression" ->
            GetProp(Eval(e.object, rt),
                    IF e.computed THEN Eval(e.property, rt).id
                    ELSE <<e.property.name>>,
                    rt)
      [] e.type = "UnaryExpression" ->
            IF e.operator = "typeof" THEN StrV(TypeOf(Eval(e.argument, rt)))
            ELSE UndefV
      [] e.type = "BinaryExpression" ->
            IF e.operator = "===" THEN BoolV(Eval(e.left, rt) = Eval(e.right, rt))
            ELSE UndefV
      [] e.type = "CallExpression" ->
            LET f == Eval(e.callee, rt)
            IN  IF f.t = "require" /\ Len(e.arguments) = 1
                THEN AdapterV(Eval(e.arguments[1], rt).id)
                ELSE IF f = BuiltinV("createClientModuleProxy") /\ Len(e.arguments) = 1
                THEN ProxyV(Eval(e.arguments[1], rt).id)
                ELSE UndefV
      [] OTHER -> UndefV

\* A statement of the original source: running the source leaves in
\* module.exports the value the module defines.
IsSourceStatement(stmt) ==
    stmt.type \in {"VariableDeclaration", "ExportNamedDeclaration",
                   "ExportDefaultDeclaration"}

RECURSIVE Exec(_, _, _)
RECURSIVE ExecAll(_, _, _)
RECURSIVE ExecForIn(_, _, _, _)

\* Runs one statement in runtime state rt; defined is the value the original
\* source statements give module.exports.
Exec(stmt, rt, defined) ==
    IF IsSourceStatement(stmt) THEN [rt EXCEPT !.exports = defined]
    ELSE IF stmt.type = "BlockStatement" THEN ExecAll(stmt.body, rt, defined)
    ELSE IF stmt.type = "IfStatement" THEN
        IF Eval(stmt.test, rt) = BoolV(TRUE)
        THEN Exec(stmt.consequent, rt, defined)
        ELSE Exec(stmt.alternate, rt, defined)
    ELSE IF stmt.type = "ForInStatement" THEN
        LET obj == Eval(stmt.right, rt)
            keys == IF obj.t = "object"
                    THEN [i \in 1..Len(obj.props) |-> obj.props[i].key]
                    ELSE <<>>
        IN ExecForIn(keys, stmt.body, rt, defined)
    ELSE IF stmt.type = "ExpressionStatement" THEN
        LET e == stmt.expression
        IN  IF e.type = "AssignmentExpression" THEN
                IF e.left = ModuleExportsNode
                THEN [rt EXCEPT !.exports = Eval(e.right, rt)]
                ELSE rt
            ELSE IF e.type = "CallExpression" THEN
                IF e.callee.type = "ArrowFunctionExpression"
                THEN Exec(e.callee.body, rt, defined)
                ELSE IF Eval(e.callee, rt) = BuiltinV("registerServerReference")
                        /\ Len(e.arguments) = 3
                THEN [rt EXCEPT !.regs =
                        Append(@, [value |-> Eval(e.arguments[1], rt),
                                   id |-> Eval(e.arguments[2], rt),
                                   name |-> Eval(e.arguments[3], rt)])]
                ELSE rt
            ELSE rt
    ELSE rt

ExecAll(stmts, rt, defined) ==
    IF stmts = <<>> THEN rt
    ELSE ExecAll(Tail(stmts), Exec(Head(stmts), rt, defined), defined)

ExecForIn(keys, loop, rt, defined) ==
    IF keys = <<>> THEN rt
    ELSE ExecForIn(Tail(keys), loop,
                   Exec(loop, [rt EXCEPT !.key = StrV(Head(keys))], defined),
                   defined)

\* module.exports of a fresh CommonJS module is an empty object.
FreshRuntime == [exports |-> ObjV(<<>>), key |-> UndefV, regs |-> <<>>]

\* The values a source module may define as its module.exports.
DefinedExports ==
    { FunV("main"),
      ObjV(<<>>),
      ObjV(<<Prop("doThing", FunV("doThing"))>>),
      ObjV(<<Prop("doThing", FunV("doThing")), Prop("limit", StrV(<<"10">>)),
             Prop("default", FunV("other"))>>),
      StrV(<<"text">>) }

\* ----------------------------------------------------------------- actions

Init ==
    /\ impl \in {"ts", "build"}
    /\ isServer \in BOOLEAN
    /\ filename \in Filenames
    /\ directives \in DirectiveLists
    /\ body \in Bodies
    /\ metadata = <<>>
    /\ error = NoError
    /\ passes = 0
    /\ executed = FALSE
    /\ moduleExports = ObjV(<<>>)
    /\ registrations = <<>>

\* Babel runs the Program visitor of the TypeScript source on the unit.
Program ==
    /\ impl = "ts"
    /\ ~executed
    /\ passes < MaxPasses
    /\ LET r == ProgramResult(isServer, directives, body, filename, metadata)
       IN  /\ error' = r.error
           /\ body' = r.body
           /\ directives' = r.directives
           /\ metadata' = r.metadata
    /\ passes' = passes + 1
    /\ UNCHANGED <<impl, isServer, filename, executed, moduleExports, registrations>>

\* Babel runs the Program visitor of the build artifact on the unit.
ProgramBuild ==
    /\ impl = "build"
    /\ ~executed
    /\ passes < MaxPasses
    /\ LET r == ProgramBuildResult(directives, body, filename, metadata)
       IN  /\ error' = r.error
           /\ body' = r.body
           /\ directives' = r.directives
           /\ metadata' = r.metadata
    /\ passes' = passes + 1
    /\ UNCHANGED <<impl, isServer, filename, executed, moduleExports, registrations>>

\* The runtime loads the module the compilation produced.
Execute(defined) ==
    /\ ~executed
    /\ passes >= 1
    /\ error = NoError
    /\ LET rt == ExecAll(body, FreshRuntime, defined)
       IN  /\ moduleExports' = rt.exports
           /\ registrations' = rt.regs
    /\ executed' = TRUE
    /\ UNCHANGED <<impl, isServer, filename, directives, body, metadata, error, passes>>

Next ==
    \/ Program
    \/ ProgramBuild
    \/ \E defined \in DefinedExports : Execute(defined)

Spec == Init /\ [][Next]_vars

\* ------------------------------------------------------------ properties
\* Vocabulary of the properties below.

\* A step that is one run of the Program visitor over the unit.
PassStep == passes' = passes + 1

ExactlyOne(dirs) == IsUseClient(dirs) # IsUseServer(dirs)

ClientOnly(dirs) == IsUseClient(dirs) /\ ~IsUseServer(dirs)

ServerOnly(dirs) == IsUseServer(dirs) /\ ~IsUseClient(dirs)

HasRecord(meta) == "clientReferences" \in DOMAIN meta

\* The step changed the statements or the directives of the module.
Rewrote == body' # body \/ directives' # directives

\* stmt is: module.exports = require(<adapter>).createClientModuleProxy(<id>)
\* with the string literal id as the only argument.
IsProxyAssignment(stmt, id) ==
    /\ stmt.type = "ExpressionStatement"
    /\ stmt.expression.type = "AssignmentExpression"
    /\ stmt.expression.operator = "="
    /\ stmt.expression.left.type = "MemberExpression"
    /\ stmt.expression.left.object = [type |-> "Identifier", name |-> "module"]
    /\ stmt.expression.left.property = [type |-> "Identifier", name |-> "exports"]
    /\ stmt.expression.right.type = "CallExpression"
    /\ stmt.expression.right.callee.type = "MemberExpression"
    /\ stmt.expression.right.callee.property
         = [type |-> "Identifier", name |-> "createClientModuleProxy"]
    /\ stmt.expression.right.callee.object.type = "CallExpression"
    /\ stmt.expression.right.callee.object.callee
         = [type |-> "Identifier", name |-> "require"]
    /\ stmt.expression.right.callee.object.arguments
         = <<[type |-> "StringLiteral", value |-> <<"react-server-dom-webpack/server">>]>>
    /\ stmt.expression.right.arguments = <<[type |-> "StringLiteral", value |-> id]>>

\* stmt is a call, without arguments, of an arrow function without parameters.
IsSelfInvokingWrapper(stmt) ==
    /\ stmt.type = "ExpressionStatement"
    /\ stmt.expression.type = "CallExpression"
    /\ stmt.expression.arguments = <<>>
    /\ stmt.expression.callee.type = "ArrowFunctionExpression"
    /\ stmt.expression.callee.params = <<>>

\* A statement the pass emitted (a source statement is never an expression
\* statement here).
IsEmitted(stmt) == stmt.type = "ExpressionStatement"

HasEmitted(stmts) == \E i \in 1..Len(stmts) : IsEmitted(stmts[i])

Wrappers(stmts) == SelectSeq(stmts, IsSelfInvokingWrapper)

\* ---- C1
\* C1: a module whose directives hold both "use client" and "use server" makes
\* the pass fail with the conflicting-directives error, whatever its
\* statements, the build mode and the filename (set or not); the module's
\* statements and directives are unchanged and no manifest record is attached.
C1_ConflictFailsFirst ==
    [][(PassStep /\ IsUseClient(directives) /\ IsUseServer(directives))
         => /\ error' = ConflictError
            /\ body' = body
            /\ directives' = directives
            /\ metadata' = metadata
            /\ ~HasRecord(metadata')]_vars

C1_Witness ==
    /\ passes >= 1
    /\ IsUseClient(directives) /\ IsUseServer(directives)
    /\ filename = <<>>
    /\ body # <<>>
    /\ error = ConflictError
    /\ ~HasRecord(metadata)

\* ---- C2
\* C2: a module with neither "use client" nor "use server" (other directives
\* included), in either build mode, keeps its statements and its directives
\* across the pass and gets no manifest record: the pass attaches nothing, and
\* a module that is as the parser left it ends without a record.
C2_NoBoundaryUntouched ==
    [][(PassStep /\ ~IsUseClient(directives) /\ ~IsUseServer(directives))
         => /\ body' = body
            /\ directives' = directives
            /\ metadata' = metadata
            /\ (~HasEmitted(body) => ~HasRecord(metadata'))]_vars

C2_Witness ==
    /\ passes >= 1
    /\ directives = <<"use strict">>
    /\ body # <<>>
    /\ filename # <<>>
    /\ error = NoError
    /\ ~HasRecord(metadata)

\* ---- C3
\* C3: for a module with exactly one boundary directive and a filename, the
\* pass attaches the record {entryPoint, exports} with the file URL of the
\* filename and the collected exports, for both boundary kinds and whether or
\* not the body is rewritten; no module is rewritten without a record.
C3_RecordAlwaysAttached ==
    [][(PassStep /\ ExactlyOne(directives) /\ filename # <<>>)
         => /\ HasRecord(metadata')
            /\ metadata'.clientReferences.entryPoint = pathToFileURL(filename)
            /\ metadata'.clientReferences.exports = CollectExports(body)]_vars

C5_ServerBodyCleared ==
    [][(PassStep /\ ServerOnly(directives) /\ Rewrote)
         => /\ directives' = <<>>
            /\ Len(body') = 1
            /\ IsSelfInvokingWrapper(body'[1])]_vars

\* C5 amended: when a module with "use server" only is rewritten, its
\* directives and its statements are kept and the single self-invoking
\* registration wrapper is appended after them.
C5_ServerBodyKept ==
    [][(PassStep /\ ServerOnly(directives) /\ Rewrote)
         => /\ directives' = directives
            /\ Len(body') = Len(body) + 1
            /\ SubSeq(body', 1, Len(body)) = body
            /\ IsSelfInvokingWrapper(body'[Len(body')])]_vars

C5_Witness ==
    /\ passes = 1
    /\ directives = <<"use server">>
    /\ Len(body) = 3
    /\ ~IsEmitted(body[1]) /\ ~IsEmitted(body[2])
    /\ IsSelfInvokingWrapper(body[3])

\* ---- C6
\* The registrations C6 expects of a module whose export value is v.
ExpectedRegistrations(v, url) ==
    IF v.t = "function"
    THEN <<[value |-> v, id |-> StrV(url), name |-> NullV]>>
    ELSE LET fns == SelectSeq(v.props, LAMBDA p : p.val.t = "function")
         IN [i \in 1..Len(fns) |->
                [value |-> fns[i].val, id |-> StrV(url), name |-> StrV(fns[i].key)]]

\* C6: running the module the pass produced for a "use server" module
\* registers, under the file URL of the module: the export value itself with
\* the name null, once, when it is a function; otherwise each enumerable key
\* whose value is a function, once, under that key, and nothing else.
C6_ServerRegistrations ==
    (executed /\ ServerOnly(directives) /\ Len(Wrappers(body)) = 1)
        => registrations = ExpectedRegistrations(moduleExports, pathToFileURL(filename))

C6_Witness ==
    /\ executed
    /\ directives = <<"use server">>
    /\ Len(body) = 2
    /\ body[1] = ExportFunction
    /\ IsSelfInvokingWrapper(body[2])
    /\ moduleExports = ObjV(<<Prop("doThing", FunV("doThing"))>>)
    /\ registrations =
         <<[value |-> FunV("doThing"),
            id |-> StrV(pathToFileURL(filename)),
            name |-> StrV(<<"doThing">>)]>>

\* ---- C7
\* C7 as claimed: a second application of the pass to a module it has already
\* rewritten changes neither the statements nor the directives nor the record,
\* for both boundary kinds.
C7_SecondPassNoOp ==
    [][(PassStep /\ HasEmitted(body))
         => /\ body' = body
            /\ directives' = directives
            /\ metadata' = metadata]_vars

\* C7 amended: a second application to a rewritten module leaves the record
\* as it is; it leaves a rewritten "use client" module as it is (its
\* directives are gone), while a rewritten "use server" module still carries
\* its directive and gets one more registration wrapper appended.
C7_SecondPass ==
    [][(PassStep /\ HasEmitted(body))
         => /\ metadata' = metadata
            /\ directives' = directives
            /\ IF IsUseServer(directives)
               THEN /\ Len(body') = Len(body) + 1
                    /\ SubSeq(body', 1, Len(body)) = body
                    /\ IsSelfInvokingWrapper(body'[Len(body')])
               ELSE /\ body' = body
                    /\ error' = NoError]_vars

C7_Witness ==
    /\ passes = 2
    /\ directives = <<>>
    /\ Len(body) = 1
    /\ HasRecord(metadata)
    /\ IsProxyAssignment(body[1], metadata.clientReferences.entryPoint)

\* ---- C8
\* C8 as claimed: a module with exactly one boundary directive (and a
\* filename) processed in client-build mode gets the record and keeps its
\* statements and directives; in server-build mode it is rewritten.
C8_RewriteGated ==
    [][(PassStep /\ ExactlyOne(directives) /\ filename # <<>>)
         => /\ HasRecord(metadata')
            /\ (isServer <=> Rewrote)]_vars

\* C8 amended: that holds of the TypeScript source; the build artifact reads
\* no build mode and rewrites the module in either mode.
C8_RewriteGatedInSource ==
    [][(PassStep /\ ExactlyOne(directives) /\ filename # <<>>)
         => IF impl = "ts"
            THEN /\ HasRecord(metadata')
                 /\ (isServer <=> Rewrote)
            ELSE Rewrote]_vars

C8_Witness ==
    /\ passes = 1
    /\ impl = "ts" /\ ~isServer
    /\ directives = <<"use server">>
    /\ body = <<ExportFunction>>
    /\ HasRecord(metadata)
    /\ metadata.clientReferences.exports = <<"doThing">>

\* ---- C9
\* C9: the pass fails with the missing-filename error exactly when the module
\* has exactly one boundary directive and no filename; a module with neither
\* directive passes without error even without a filename.
C9_FilenameErrorOnlyWithBoundary ==
    [][PassStep
         => (error' = FilenameError
                <=> (ExactlyOne(directives) /\ filename = <<>>))]_vars

\* ---- C10
\* The names one declarator binds.
BoundNames(id) ==
    IF id.type = "ObjectPattern" THEN id.properties ELSE <<id.name>>

RECURSIVE Flatten(_)
Flatten(ss) == IF ss = <<>> THEN <<>> ELSE Head(ss) \o Flatten(Tail(ss))

\* The export names C10 expects of one statement.
ExpectedNodeExports(node) ==
    IF node.type = "ExportDefaultDeclaration" THEN <<"default">>
    ELSE IF node.type # "ExportNamedDeclaration" THEN <<>>
    ELSE IF node.declaration.type = "VariableDeclaration"
    THEN Flatten([i \in 1..Len(node.declaration.declarations) |->
                    BoundNames(node.declaration.declarations[i].id)])
    ELSE IF node.declaration.type # "Null" THEN <<node.declaration.id.name>>
    ELSE [i \in 1..Len(node.specifiers) |-> node.specifiers[i].exported.name]

ExpectedExports(stmts) ==
    Flatten([i \in 1..Len(stmts) |-> ExpectedNodeExports(stmts[i])])

\* C10: the recorded exports are, in source order, the name of every binding
\* of an exported variable declaration (identifier or destructuring pattern),
\* the name of an exported function or class, the exported name of every
\* specifier and "default" for a default export; every entry is a defined
\* name; the collection does not change the module.
C10_ExportsAreBindingNames ==
    [][(PassStep /\ HasRecord(metadata') /\ ~HasEmitted(body))
         => /\ metadata'.clientReferences.exports = ExpectedExports(body)
            /\ \A i \in 1..Len(metadata'.clientReferences.exports) :
                   metadata'.clientReferences.exports[i] # Undefined]_vars

====
